---- MODULE Spec2Model ----
(***************************************************************************)
(* Model of src/src/WeatherApp.jsx: the WeatherApp component's state, its  *)
(* event handlers (onSearchCity, onUseMyLocation, toggleUnits, the history *)
(* buttons), the asynchronous continuations of each flow (one action per   *)
(* await / callback), the history updater and the hourlyBlocks projection. *)
(*                                                                         *)
(* A handler or effect reads the state of the render it was created in     *)
(* (its closure); every flow therefore carries the values it captured.     *)
(***************************************************************************)
EXTENDS Integers, Sequences, FiniteSets, TLC

\* ---------------------------------------------------------------- bounds
MaxStarts == 2        \* flows and deferred searches initiated in one behaviour
MaxRunLen == 13       \* longest run of an hourly series (a series is two runs)
MaxHour == 2          \* latest first hour of a run
MaxNowHalfHours == 4  \* reference times 0, 0.5 h, 1 h, ... counted in half hours

\* ------------------------------------------------------- program constants
HistoryCap == 8       \* next.slice(0,8)
HourlyCap == 24       \* arr.length < 24

\* ------------------------------------------------------------ value spaces
Null == "null"        \* JS null: coords, the local p of a GPS flow
Empty == ""           \* the empty text
Blank == " "          \* a text of white space only
InvalidISO == -1      \* a time string Date.parse cannot read
NaN == -1             \* Date.parse's answer for such a string

\* The texts `${p.name}, ${p.country}` of nine places: one more than the history keeps.
AllTags == {"A", "B", "C", "D", "E", "F", "G", "H", "I"}
\* The two places the geocoder and the device answer with in the concurrent model:
\* the code only ever compares places for equality.
Locs == {"A", "B"}
\* A user can type white space, nothing, or the text of a place.
Texts == {Blank, Empty} \cup Locs
Units == {"metric", "imperial"}

NoPlace == [kind |-> "null", loc |-> Null]
PlaceObject(L) == [kind |-> "object", loc |-> L]   \* { name, country } of resolveCity
PlaceString(L) == [kind |-> "string", loc |-> L]   \* the string reverseGeo returns
NoData == [loc |-> Null, units |-> "none", req |-> 0]

VARIABLES
  cityInput,    \* useState("")
  coords,       \* useState(null)
  place,        \* useState(null)
  units,        \* useState("metric")
  loading,      \* useState(false)
  error,        \* useState("")
  current,      \* useState(null)
  forecast,     \* useState(null)
  history,      \* useState(localStorage ...)
  geolocation,  \* navigator.geolocation is present
  flows,        \* the asynchronous flows in flight, each with its closure and locals
  timers,       \* pending setTimeout(() => onSearchCity(), 0) callbacks, each with its
                \* closure and the entry whose button was clicked
  nextId,       \* number of the next flow to start (order of initiation)
  lastOk,       \* number of the latest-initiated flow whose forecast fetch succeeded
  hourlyTime,   \* forecast.hourly.time
  nowMs,        \* Date.now() at the evaluation of hourlyBlocks
  hourlySlice,  \* the value of hourlyBlocks
  projected     \* hourlyBlocks has been evaluated for hourlyTime

hourlyVars == <<hourlyTime, nowMs, hourlySlice, projected>>
vars == <<cityInput, coords, place, units, loading, error, current, forecast, history,
          geolocation, flows, timers, nextId, lastOk, hourlyTime, nowMs, hourlySlice,
          projected>>

\* ------------------------------------------------------------ pure helpers
\* String.prototype.trim on the texts of the model
trim(text) == IF text = Blank THEN Empty ELSE text

Opposite(u) == IF u = "metric" THEN "imperial" ELSE "metric"

\* tag = `${p.name}, ${p.country}`
TagOf(L) == L

\* what the render shows as location: place?.name (undefined for a string or null)
DisplayedName(p) == IF p.kind = "object" THEN p.loc ELSE Null

\* isMetric ? "°C" : "°F"
tempUnit(u) == IF u = "metric" THEN "C" ELSE "F"

\* temperature_unit the forecast request carries
RequestUnit(u) == IF u = "metric" THEN "celsius" ELSE "fahrenheit"

\* faulty variant of Record: the filter is missing
RecordNoFilter(h, tag) == SubSeq(<<tag>> \o h, 1,
                            IF Len(h) + 1 < HistoryCap THEN Len(h) + 1 ELSE HistoryCap)

\* setHistory((h) => [tag, ...h.filter((x) => x !== tag)].slice(0,8))
Record(h, tag) ==
  LET next == <<tag>> \o SelectSeq(h, LAMBDA x : x # tag)
  IN  SubSeq(next, 1, IF Len(next) < HistoryCap THEN Len(next) ELSE HistoryCap)

\* ------------------------------------------------------------------ flows
Flow(id, kind, pc, q, u, c, p, snap) ==
  [id |-> id, kind |-> kind, pc |-> pc, q |-> q, units |-> u, c |-> c, p |-> p,
   snap |-> snap]

\* the response of the forecast request of flow f
Response(f) == [loc |-> f.c, units |-> RequestUnit(f.units), req |-> f.id]

CanStart == (nextId - 1) + Len(timers) < MaxStarts

\* ---------------------------------------------------------------- events
\* onChange of the search input
TypeCity(text) ==
  /\ cityInput' = text
  /\ UNCHANGED <<coords, place, units, loading, error, current, forecast, history,
                 geolocation, flows, timers, nextId, lastOk, hourlyVars>>

\* onSearchCity up to its first await, run with the cityInput and units of a closure
onSearchCity(input, u) ==
  /\ error' = ""
  /\ IF trim(input) = Empty
     THEN UNCHANGED <<loading, flows, nextId>>
     ELSE /\ loading' = TRUE
          /\ flows' = flows \cup
               {Flow(nextId, "search", "geocode", trim(input), u, Null, Null, forecast)}
          /\ nextId' = nextId + 1

\* the form's submit button: disabled={!cityInput.trim() || loading}
SubmitForm ==
  /\ CanStart
  /\ trim(cityInput) # Empty
  /\ ~loading
  /\ onSearchCity(cityInput, units)
  /\ UNCHANGED <<cityInput, coords, place, units, current, forecast, history,
                 geolocation, timers, lastOk, hourlyVars>>

\* a history button: setCityInput(h); setTimeout(() => onSearchCity(), 0)
HistoryClick(i) ==
  /\ CanStart
  /\ i \in 1 .. Len(history)
  /\ cityInput' = history[i]
  /\ timers' = Append(timers, [cityInput |-> cityInput, units |-> units,
                                clicked |-> history[i]])
  /\ UNCHANGED <<coords, place, units, loading, error, current, forecast, history,
                 geolocation, flows, nextId, lastOk, hourlyVars>>

\* the timeout fires: onSearchCity of the render in which the button was clicked
TimerFire ==
  /\ timers # <<>>
  /\ onSearchCity(Head(timers).cityInput, Head(timers).units)
  /\ timers' = Tail(timers)
  /\ UNCHANGED <<cityInput, coords, place, units, current, forecast, history,
                 geolocation, lastOk, hourlyVars>>

\* resolveCity returns: setCoords(c); setPlace(p); fetchAll(c.lat, c.lon) starts
ResolveCityOk(f, L) ==
  /\ f \in flows /\ f.kind = "search" /\ f.pc = "geocode"
  /\ coords' = L
  /\ place' = PlaceObject(L)
  /\ flows' = (flows \ {f}) \cup {[f EXCEPT !.pc = "fetch", !.q = Empty, !.c = L]}
  /\ UNCHANGED <<cityInput, units, loading, error, current, forecast, history,
                 geolocation, timers, nextId, lastOk, hourlyVars>>

\* resolveCity throws (!res.ok or no result): catch, finally
ResolveCityFail(f, msg) ==
  /\ f \in flows /\ f.kind = "search" /\ f.pc = "geocode"
  /\ error' = msg
  /\ loading' = FALSE
  /\ flows' = flows \ {f}
  /\ UNCHANGED <<cityInput, coords, place, units, current, forecast, history,
                 geolocation, timers, nextId, lastOk, hourlyVars>>

\* onUseMyLocation up to getCurrentPosition
onUseMyLocation ==
  /\ IF ~geolocation
     THEN /\ error' = "noGeolocation"
          /\ UNCHANGED <<loading, flows, nextId>>
     ELSE /\ CanStart
          /\ error' = ""
          /\ loading' = TRUE
          /\ flows' = flows \cup
               {Flow(nextId, "gps", "locate", Empty, units, Null, Null, forecast)}
          /\ nextId' = nextId + 1
  /\ UNCHANGED <<cityInput, coords, place, units, current, forecast, history,
                 geolocation, timers, lastOk, hourlyVars>>

\* success callback of getCurrentPosition: setCoords({lat, lon}); reverseGeo starts
PositionOk(f, L) ==
  /\ f \in flows /\ f.kind = "gps" /\ f.pc = "locate"
  /\ coords' = L
  /\ flows' = (flows \ {f}) \cup {[f EXCEPT !.pc = "reverse", !.c = L]}
  /\ UNCHANGED <<cityInput, place, units, loading, error, current, forecast, history,
                 geolocation, timers, nextId, lastOk, hourlyVars>>

\* faulty variant of PositionFail: no setLoading(false)
PositionFailKeepsLoading(f) ==
  /\ f \in flows /\ f.kind = "gps" /\ f.pc = "locate"
  /\ error' = "gpsPermission"
  /\ flows' = flows \ {f}
  /\ UNCHANGED <<cityInput, coords, place, units, loading, current, forecast, history,
                 geolocation, timers, nextId, lastOk, hourlyVars>>

\* error callback of getCurrentPosition
PositionFail(f) ==
  /\ f \in flows /\ f.kind = "gps" /\ f.pc = "locate"
  /\ loading' = FALSE
  /\ error' = "gpsPermission"
  /\ flows' = flows \ {f}
  /\ UNCHANGED <<cityInput, coords, place, units, current, forecast, history,
                 geolocation, timers, nextId, lastOk, hourlyVars>>

\* reverseGeo returns p (a string, or null on any failure): if (p) setPlace(p);
\* fetchAll(lat, lon) starts
reverseGeo(f, p) ==
  /\ f \in flows /\ f.kind = "gps" /\ f.pc = "reverse"
  /\ p \in {Null, f.c}
  /\ place' = IF p # Null THEN PlaceString(p) ELSE place
  /\ flows' = (flows \ {f}) \cup {[f EXCEPT !.pc = "fetch", !.p = p]}
  /\ UNCHANGED <<cityInput, coords, units, loading, error, current, forecast, history,
                 geolocation, timers, nextId, lastOk, hourlyVars>>

\* faulty variant of toggleUnits: the re-fetch uses the unit system of before the toggle
toggleUnitsStaleUnits ==
  /\ units' = Opposite(units)
  /\ IF coords = Null
     THEN UNCHANGED <<loading, flows, nextId>>
     ELSE /\ CanStart
          /\ loading' = TRUE
          /\ flows' = flows \cup
               {Flow(nextId, "units", "fetch", Empty, units, coords, Null, forecast)}
          /\ nextId' = nextId + 1
  /\ UNCHANGED <<cityInput, coords, place, error, current, forecast, history,
                 geolocation, timers, lastOk, hourlyVars>>

\* toggleUnits and the effect of the render that follows it (deps [units]):
\* if (!coords) return; setLoading(true); fetchAll(coords.lat, coords.lon)
toggleUnits ==
  /\ units' = Opposite(units)
  /\ IF coords = Null
     THEN UNCHANGED <<loading, flows, nextId>>
     ELSE /\ CanStart
          /\ loading' = TRUE
          /\ flows' = flows \cup
               {Flow(nextId, "units", "fetch", Empty, units', coords, Null, forecast)}
          /\ nextId' = nextId + 1
  /\ UNCHANGED <<cityInput, coords, place, error, current, forecast, history,
                 geolocation, timers, lastOk, hourlyVars>>

\* fetchAll returns: setCurrent(all.current); setForecast(all); a search records its
\* tag; finally setLoading(false)
FetchOk(f) ==
  /\ f \in flows /\ f.pc = "fetch"
  /\ current' = Response(f)
  /\ forecast' = Response(f)
  /\ history' = IF f.kind = "search" THEN Record(history, TagOf(f.c)) ELSE history
  /\ loading' = FALSE
  /\ flows' = flows \ {f}
  /\ lastOk' = IF f.id > lastOk THEN f.id ELSE lastOk
  /\ UNCHANGED <<cityInput, coords, place, units, error, geolocation, timers, nextId,
                 hourlyVars>>

\* faulty variant of FetchFail: the failure also drops the displayed result
FetchFailClears(f, msg) ==
  /\ f \in flows /\ f.pc = "fetch"
  /\ error' = msg
  /\ current' = NoData
  /\ forecast' = NoData
  /\ loading' = FALSE
  /\ flows' = flows \ {f}
  /\ UNCHANGED <<cityInput, coords, place, units, history, geolocation, timers, nextId,
                 lastOk, hourlyVars>>

\* fetchAll throws (!res.ok): catch, finally
FetchFail(f, msg) ==
  /\ f \in flows /\ f.pc = "fetch"
  /\ error' = msg
  /\ loading' = FALSE
  /\ flows' = flows \ {f}
  /\ UNCHANGED <<cityInput, coords, place, units, current, forecast, history,
                 geolocation, timers, nextId, lastOk, hourlyVars>>

\* the steps of the flow numbered i that an answer of the outside world triggers
Complete(i) ==
  \E f \in flows :
    /\ f.id = i
    /\ \/ \E L \in Locs : ResolveCityOk(f, L)
       \/ ResolveCityFail(f, "couldNotFind")
       \/ \E L \in Locs : PositionOk(f, L)
       \/ PositionFail(f)
       \/ \E p \in {Null} \cup Locs : reverseGeo(f, p)
       \/ FetchOk(f)
       \/ FetchFail(f, "failedFetch")

\* what localStorage can hold from an earlier session: nothing, or one tag
StoredHistories == {<<>>, <<"A">>}

Init ==
  /\ cityInput = Empty
  /\ coords = Null
  /\ place = NoPlace
  /\ units = "metric"
  /\ loading = FALSE
  /\ error = ""
  /\ current = NoData
  /\ forecast = NoData
  /\ history \in StoredHistories
  /\ geolocation \in BOOLEAN
  /\ flows = {}
  /\ timers = <<>>
  /\ nextId = 1
  /\ lastOk = 0
  /\ hourlyTime = <<>>
  /\ nowMs = 0
  /\ hourlySlice = <<>>
  /\ projected = FALSE

Next ==
  \/ \E text \in Texts : TypeCity(text)
  \/ SubmitForm
  \/ \E i \in 1 .. HistoryCap : HistoryClick(i)
  \/ TimerFire
  \/ onUseMyLocation
  \/ toggleUnits
  \/ \E i \in 1 .. MaxStarts : Complete(i)

Spec == Init /\ [][Next]_vars

\* every started request and every geolocation request eventually completes
LiveSpec == Spec /\ \A i \in 1 .. MaxStarts : WF_vars(Complete(i))

\* ------------------------------------------------- history, one search at a time
\* A city search run to its end with nothing else in flight: the user types the text
\* of place L and submits; resolveCity and fetchAll succeed. Any number of searches
\* follow one another, so the flows are not numbered here.
CitySearch(L) ==
  /\ flows = {} /\ timers = <<>> /\ ~loading
  /\ cityInput' = L
  /\ error' = ""
  /\ coords' = L
  /\ place' = PlaceObject(L)
  /\ current' = [loc |-> L, units |-> RequestUnit(units), req |-> nextId]
  /\ forecast' = current'
  /\ history' = Record(history, TagOf(L))
  /\ loading' = FALSE
  /\ UNCHANGED <<units, geolocation, flows, timers, nextId, lastOk, hourlyVars>>

HistoryInit ==
  /\ cityInput = Empty
  /\ coords = Null
  /\ place = NoPlace
  /\ units = "metric"
  /\ loading = FALSE
  /\ error = ""
  /\ current = NoData
  /\ forecast = NoData
  /\ history = <<>>
  /\ geolocation = TRUE
  /\ flows = {}
  /\ timers = <<>>
  /\ nextId = 1
  /\ lastOk = 0
  /\ hourlyTime = <<>>
  /\ nowMs = 0
  /\ hourlySlice = <<>>
  /\ projected = FALSE

HistoryNext == \E L \in AllTags : CitySearch(L)

HistorySpec == HistoryInit /\ [][HistoryNext]_vars

\* ------------------------------------------------------------- hourlyBlocks
\* Date.parse of an hourly time string: milliseconds, or NaN
DateParse(tISO) == IF tISO = InvalidISO THEN NaN ELSE tISO * 3600000

\* tMs >= now (false when tMs is NaN)
AtOrAfter(tMs, now) == tMs # NaN /\ tMs >= now

\* faulty variant of hourlyLoop: arr.length <= 24 keeps one entry too many
RECURSIVE hourlyLoopOffByOne(_, _, _, _)
hourlyLoopOffByOne(time, now, i, arr) ==
  IF i > Len(time) THEN arr
  ELSE hourlyLoopOffByOne(time, now, i + 1,
         IF AtOrAfter(DateParse(time[i]), now) /\ Len(arr) <= HourlyCap
         THEN Append(arr, [time |-> time[i], idx |-> i])
         ELSE arr)

\* for (let i = 0; i < time.length; i++) if (tMs >= now && arr.length < 24) arr.push(..)
\* idx stands for the fields read from the parallel arrays at position i
RECURSIVE hourlyLoop(_, _, _, _)
hourlyLoop(time, now, i, arr) ==
  IF i > Len(time) THEN arr
  ELSE hourlyLoop(time, now, i + 1,
         IF AtOrAfter(DateParse(time[i]), now) /\ Len(arr) < HourlyCap
         THEN Append(arr, [time |-> time[i], idx |-> i])
         ELSE arr)

hourlyBlocks(time, now) ==
  IF Len(time) = 0 THEN <<>> ELSE hourlyLoop(time, now, 1, <<>>)

\* a run of an hourly series: len entries from hour start on, step hours apart, or
\* len unreadable entries
Run(start, len, step) ==
  [i \in 1 .. len |-> IF start = InvalidISO THEN InvalidISO ELSE start + (i - 1) * step]

Runs == {Run(start, len, step) :
           start \in {InvalidISO} \cup (0 .. MaxHour), len \in 0 .. MaxRunLen,
           step \in {0, 1}}

HourlyInit ==
  /\ cityInput = Empty
  /\ coords = Null
  /\ place = NoPlace
  /\ units = "metric"
  /\ loading = FALSE
  /\ error = ""
  /\ current = NoData
  /\ forecast = NoData
  /\ history = <<>>
  /\ geolocation = TRUE
  /\ flows = {}
  /\ timers = <<>>
  /\ nextId = 1
  /\ lastOk = 0
  /\ hourlyTime \in {r1 \o r2 : r1 \in Runs, r2 \in Runs}
  /\ nowMs \in {k * 1800000 : k \in 0 .. MaxNowHalfHours}
  /\ hourlySlice = <<>>
  /\ projected = FALSE

\* the useMemo callback runs for the forecast received
ProjectHourly ==
  /\ ~projected
  /\ hourlySlice' = hourlyBlocks(hourlyTime, nowMs)
  /\ projected' = TRUE
  /\ UNCHANGED <<cityInput, coords, place, units, loading, error, current, forecast,
                 history, geolocation, flows, timers, nextId, lastOk, hourlyTime, nowMs>>

HourlyNext == ProjectHourly

HourlySpec == HourlyInit /\ [][HourlyNext]_vars

\* ================================================================== claims
Range(s) == {s[i] : i \in 1 .. Len(s)}
NoDuplicates(s) == Cardinality(Range(s)) = Len(s)
Smaller(a, b) == IF a < b THEN a ELSE b

\* the instant of an entry of the slice, and the positions of the series at or after now
TimeOf(e) == DateParse(e.time)
Qualifying == {i \in 1 .. Len(hourlyTime) : AtOrAfter(DateParse(hourlyTime[i]), nowMs)}
SliceAtOrAfterNow ==
  \A k \in 1 .. Len(hourlySlice) :
    TimeOf(hourlySlice[k]) # NaN /\ TimeOf(hourlySlice[k]) >= nowMs
SliceNonDecreasing ==
  \A k, l \in 1 .. Len(hourlySlice) :
    k < l => TimeOf(hourlySlice[k]) <= TimeOf(hourlySlice[l])
SliceInSeriesOrder ==
  /\ \A k \in 1 .. Len(hourlySlice) :
       /\ hourlySlice[k].idx \in Qualifying
       /\ hourlySlice[k].time = hourlyTime[hourlySlice[k].idx]
  /\ \A k, l \in 1 .. Len(hourlySlice) :
       k < l => hourlySlice[k].idx < hourlySlice[l].idx
SeriesNonDecreasing ==
  \A i, j \in Qualifying : i < j => DateParse(hourlyTime[i]) <= DateParse(hourlyTime[j])
SliceBounded ==
  /\ Len(hourlySlice) <= 24
  /\ Len(hourlySlice) < 24 => Cardinality(Qualifying) < 24

\* C1 as stated: for any hourly series and any now, the slice holds only entries at or
\* after now, in non-decreasing time order, at most 24 of them, and fewer than 24 only
\* when the series holds fewer than 24 such entries.
C1_AnySeriesNonDecreasing ==
  projected => SliceAtOrAfterNow /\ SliceNonDecreasing /\ SliceBounded

\* C1 amended: the slice holds only entries at or after now, in the order of the series
\* (so in non-decreasing time order whenever the series' entries at or after now are),
\* at most 24 of them, and fewer than 24 only when the series holds fewer than 24 such
\* entries.
C1_SeriesOrderKept ==
  projected =>
    /\ SliceAtOrAfterNow
    /\ SliceInSeriesOrder
    /\ SeriesNonDecreasing => SliceNonDecreasing
    /\ SliceBounded

\* a series with a past entry and more than 24 entries at or after now, cut to 24
C1_CutTo24 ==
  /\ projected
  /\ Len(hourlySlice) = 24
  /\ Cardinality(Qualifying) > 24
  /\ \E i \in 1 .. Len(hourlyTime) : i \notin Qualifying

\* what C2 expects of the list h2 left by a successful search with tag T on list h:
\* T in front, then the entries of h other than T, each one place later than in h if
\* it stood before T (or T is new) and in its place otherwise, cut to 8
RecordedInFront(h, T, h2) ==
  /\ Len(h2) = Smaller(HistoryCap, IF T \in Range(h) THEN Len(h) ELSE Len(h) + 1)
  /\ h2[1] = T
  /\ \A k \in 2 .. Len(h2) :
       h2[k] = IF \E j \in 1 .. (k - 1) : h[j] = T THEN h[k] ELSE h[k - 1]

\* C2: starting from an empty history, after any sequence of city searches the list
\* holds no duplicate tag and at most 8 entries, and each successful search with tag T
\* leaves T followed by the previous entries other than T, in their order, cut to 8.
C2_HistoryBoundedDeduplicated ==
  /\ NoDuplicates(history) /\ Len(history) <= 8
  /\ [][/\ NoDuplicates(history') /\ Len(history') <= 8
        /\ RecordedInFront(history, TagOf(coords'), history')]_vars

\* the list is full, with the tag of the search that ended last in front
C2_ListFull ==
  /\ Len(history) = 8
  /\ current # NoData
  /\ history[1] = TagOf(current.loc)

\* the unit label the values of a response need
LabelOfRequestUnit(r) == IF r = "celsius" THEN "C" ELSE "F"

Displayed == current # NoData /\ forecast # NoData
Quiescent == flows = {} /\ timers = <<>>

\* C3: whenever weather data is displayed, the unit labels (derived from units) are
\* those of the unit system the displayed current conditions and forecast were fetched
\* with.
C3_LabelsMatchDisplayedData ==
  Displayed =>
    /\ LabelOfRequestUnit(current.units) = tempUnit(units)
    /\ LabelOfRequestUnit(forecast.units) = tempUnit(units)

\* C4: a toggleUnits with coordinates set starts exactly one new forecast fetch, for
\* the current coordinates and with the unit system opposite to the one before the
\* toggle; with no coordinates set it starts no fetch.
C4_ToggleStartsOneFetch ==
  [][units' # units =>
       IF coords = Null
       THEN flows' = flows
       ELSE \E f \in flows' :
              /\ f \notin flows
              /\ flows' = flows \cup {f}
              /\ f.kind = "units" /\ f.pc = "fetch"
              /\ f.c = coords
              /\ Response(f).units = RequestUnit(Opposite(units))]_vars

\* a re-fetch started by a toggle is in flight, for the coordinates and the units now
\* in state
C4_RefetchInFlight ==
  \E f \in flows : f.kind = "units" /\ f.units = units /\ f.c = coords

\* flow f ends at its forecast fetch without storing a response
EndsWithoutResponse(f) ==
  /\ f \in flows /\ f.pc = "fetch"
  /\ f \notin flows'
  /\ forecast' # Response(f)

\* C5 as stated: when the forecast fetch of a flow fails, the flow ends with a
\* non-empty error message and current and forecast are what they were before the flow
\* started.
C5_SameAsBeforeFlowStarted ==
  [][\A f \in flows :
       EndsWithoutResponse(f) =>
         error' # "" /\ current' = f.snap /\ forecast' = f.snap]_vars

\* C5 amended: when the forecast fetch of a flow fails, the flow ends with a non-empty
\* error message and the flow itself changes neither current nor forecast: they are
\* what they were before the flow started, or what another flow stored meanwhile.
C5_FailedFlowStoresNothing ==
  [][\A f \in flows :
       EndsWithoutResponse(f) =>
         /\ error' # ""
         /\ current' = current /\ forecast' = forecast /\ current' = forecast'
         /\ forecast' = f.snap \/ (forecast' # NoData /\ forecast'.req # f.id)]_vars

\* a forecast fetch has failed while weather data was displayed
C5_FetchFailedOverData ==
  error = "failedFetch" /\ Displayed /\ flows = {}

\* a GPS flow whose reverse geocoding gave null, the only flow in flight, stores its
\* forecast and ends
GpsWithoutNameEnds(f) ==
  /\ flows = {f} /\ timers = <<>>
  /\ f.kind = "gps" /\ f.pc = "fetch" /\ f.p = Null
  /\ f \notin flows'
  /\ forecast' = Response(f)

\* C6: a GPS flow whose reverse geocoding returns nothing or fails still stores the
\* forecast for the device coordinates, ends with no error message of its own, and
\* ends with the place name unset, whatever place an earlier flow had set.
C6_GpsWithoutNameUnsetsPlace ==
  [][\A f \in flows :
       GpsWithoutNameEnds(f) =>
         /\ forecast'.loc = f.c /\ current'.loc = f.c
         /\ error = "" => error' = ""
         /\ DisplayedName(place') = Null]_vars

InFlight(i) == \E f \in flows : f.id = i

\* C7: every flow that sets loading to true eventually ends, and once no flow is in
\* flight loading is false (every request is assumed to complete: LiveSpec).
C7_LoadingEventuallyCleared ==
  /\ \A i \in 1 .. MaxStarts : InFlight(i) ~> ~InFlight(i)
  /\ [](flows = {} => ~loading)

\* a flow has set loading and ended on a failure path, and nothing is in flight
C7_FailedFlowEnded ==
  /\ nextId > 1 /\ Quiescent
  /\ ~loading
  /\ error \in {"gpsPermission", "couldNotFind", "failedFetch"}

\* C8: once all in-flight requests have completed, the displayed result is the one
\* returned to the flow that was initiated last, not to an earlier flow that completed
\* later.
C8_LastInitiatedWins ==
  (Quiescent /\ nextId > 1 /\ lastOk = nextId - 1) =>
    (forecast.req = nextId - 1 /\ current.req = nextId - 1)

\* C9: no two city-search flows are ever in flight at the same time.
C9_OneSearchAtATime ==
  Cardinality({f \in flows : f.kind = "search"}) <= 1

\* C10: whenever no flow is in flight and weather data is displayed, the coordinates
\* in state and the place name shown are those of the location the displayed data was
\* fetched for.
C10_PlaceMatchesDisplayedData ==
  (Quiescent /\ Displayed) =>
    /\ coords = forecast.loc
    /\ DisplayedName(place) \in {Null, forecast.loc}

\* C11: clicking a history entry h starts a geocoding request for exactly the text h,
\* whatever the search input held at the click: when the deferred search runs, a new
\* search flow is at its geocoding request with the text h.
C11_HistoryClickSearchesEntry ==
  [][(timers # <<>> /\ timers' = Tail(timers)) =>
       \E f \in flows' :
         /\ f \notin flows
         /\ f.kind = "search" /\ f.pc = "geocode"
         /\ f.q = Head(timers).clicked]_vars

====
